---- MODULE Spec2Model ----
(***************************************************************************)
(* A model of pyfileinfo: the FileInfo path handle (fileinfo.py), its path *)
(* validation, directory traversal and mutating operations, and the glob   *)
(* translation and the flag sets (FileAttributes, SecurityInformation) of  *)
(* helpers.py.                                                             *)
(*                                                                         *)
(* A path string is a sequence of one-character strings, so that indexing, *)
(* joining and splitting are what the code does on str.                    *)
(***************************************************************************)
EXTENDS Integers, Sequences, FiniteSets, TLC

VARIABLES
    osname,   \* os.name of the host: "nt" or "posix"
    fs,       \* the filesystem: node path -> [kind, data]
    fi,       \* the FileInfo handle: [made, path] (path is its __path)
    call,     \* the last call on the handle: its name, arguments and outcome
    walk,     \* the generator of iter_files / iter_directories / iter_items
    flags     \* the last operation on a FileAttributes / SecurityInformation

vars == <<osname, fs, fi, call, walk, flags>>

-----------------------------------------------------------------------------
(* Bounds of the model.                                                    *)

\* longest path string given to the constructor in SpecPath
MaxLen == 3

\* deepest entry of the modelled filesystem, counted from the working directory
MaxDepth == 2

\* most entries of a filesystem a behaviour starts in
MaxEntries == 3

\* most symbolic links the host follows when it resolves one path (40 on Linux)
MaxLinks == 1

\* the flag values of the model are the integers of this many bits, signed
FlagBits == 4

-----------------------------------------------------------------------------
(* Strings.                                                                *)

\* c in s
Contains(s, c) == \E i \in 1..Len(s) : s[i] = c

\* s.rindex(c): the 0-based index of the last occurrence of c (c occurs in s)
rindex(s, c) == (CHOOSE i \in 1..Len(s) : s[i] = c /\ \A j \in (i+1)..Len(s) : s[j] # c) - 1

\* all strings over the characters cs of length at most n
StringsUpTo(cs, n) == UNION {[1..k -> cs] : k \in 0..n}

-----------------------------------------------------------------------------
(* FileInfo.__is_valid_path                                                *)

\* the characters of the loop `for c in '*?"<>|'`
ReservedChars == {"*", "?", "\"", "<", ">", "|"}

\* a variant that forgets the reserved-character loop and the emptiness test
is_valid_path_noloop(path) ==
    ~ (Contains(path, ":") /\ rindex(path, ":") # 1)

is_valid_path(path) ==
    IF \E c \in ReservedChars : Contains(path, c) THEN FALSE
    ELSE IF Contains(path, ":") /\ rindex(path, ":") # 1 THEN FALSE
    ELSE path # <<>>

-----------------------------------------------------------------------------
(* Patterns.  A compiled pattern is a sequence of tokens of the regular    *)
(* expression: "star" is .*, "any" is ., "lit" is an escaped character,    *)
(* "set" is a character class and "end" is the anchor that closes it.      *)

Tok(t, c, neg, cs, nl) == [t |-> t, c |-> c, neg |-> neg, cs |-> cs, nl |-> nl]

\* . and .* of helpers.translate: re.compile without DOTALL, no newline
TStar == Tok("star", "", FALSE, {}, FALSE)
TAny == Tok("any", "", FALSE, {}, FALSE)
\* re.escape(c)
TLit(c) == Tok("lit", c, FALSE, {}, FALSE)
\* "$": the end, or just before a newline that ends the string
TDollar == Tok("end", "", FALSE, {}, TRUE)
\* the tokens of the standard library's translate, compiled under (?s:...)\Z
PStar == Tok("star", "", FALSE, {}, TRUE)
PAny == Tok("any", "", FALSE, {}, TRUE)
PSet(neg, cs) == Tok("set", "", neg, cs, TRUE)
PEnd == Tok("end", "", FALSE, {}, FALSE)

\* a variant of the loop of helpers.translate without re.escape: a "." of
\* the pattern reaches the regular expression as it is
RECURSIVE translate_loop_unescaped(_, _)
translate_loop_unescaped(pat, i) ==
    IF i > Len(pat) THEN <<>>
    ELSE <<(IF pat[i] = "*" THEN TStar
            ELSE IF pat[i] \in {"?", "."} THEN TAny
            ELSE TLit(pat[i]))>> \o translate_loop_unescaped(pat, i + 1)

\* helpers.translate: the loop over the characters of pat
RECURSIVE translate_loop(_, _)
translate_loop(pat, i) ==
    IF i > Len(pat) THEN <<>>
    ELSE <<(IF pat[i] = "*" THEN TStar
            ELSE IF pat[i] = "?" THEN TAny
            ELSE TLit(pat[i]))>> \o translate_loop(pat, i + 1)

\* helpers.translate(pat): res + "$"
translate(pat) == Append(translate_loop(pat, 1), TDollar)

\* the first j' >= j with pat[j'] = "]", or Len(pat) + 1
RECURSIVE ScanClose(_, _)
ScanClose(pat, j) ==
    IF j > Len(pat) \/ pat[j] = "]" THEN j ELSE ScanClose(pat, j + 1)

\* fnmatch.translate of the standard library, which fnmatch uses when the
\* module did not replace it: [seq] and [!seq] are character classes, and a
\* "[" that no "]" closes is a literal
RECURSIVE py_translate_loop(_, _)
py_translate_loop(pat, i) ==
    IF i > Len(pat) THEN <<>>
    ELSE IF pat[i] = "*" THEN <<PStar>> \o py_translate_loop(pat, i + 1)
    ELSE IF pat[i] = "?" THEN <<PAny>> \o py_translate_loop(pat, i + 1)
    ELSE IF pat[i] = "["
    THEN LET j1 == IF i + 1 <= Len(pat) /\ pat[i + 1] = "!" THEN i + 2 ELSE i + 1
             j2 == IF j1 <= Len(pat) /\ pat[j1] = "]" THEN j1 + 1 ELSE j1
             j == ScanClose(pat, j2)
         IN  IF j > Len(pat)
             THEN <<TLit("[")>> \o py_translate_loop(pat, i + 1)
             ELSE LET stuff == SubSeq(pat, i + 1, j - 1)
                      neg == stuff[1] = "!"
                      body == IF neg THEN Tail(stuff) ELSE stuff
                  IN  <<PSet(neg, {body[k] : k \in 1..Len(body)})>>
                          \o py_translate_loop(pat, j + 1)
    ELSE <<TLit(pat[i])>> \o py_translate_loop(pat, i + 1)

py_translate(pat) == Append(py_translate_loop(pat, 1), PEnd)

\* re.compile(res).match(s) from position j of s with the tokens from i on
RECURSIVE re_match_from(_, _, _, _)
re_match_from(toks, i, s, j) ==
    IF i > Len(toks) THEN TRUE
    ELSE LET tk == toks[i]
             Dot(k) == tk.nl \/ s[k] # "\n"
         IN  CASE tk.t = "star" ->
                    \E k \in j..(Len(s) + 1) :
                        /\ \A m \in j..(k - 1) : Dot(m)
                        /\ re_match_from(toks, i + 1, s, k)
               [] tk.t = "any" ->
                    j <= Len(s) /\ Dot(j) /\ re_match_from(toks, i + 1, s, j + 1)
               [] tk.t = "lit" ->
                    j <= Len(s) /\ s[j] = tk.c /\ re_match_from(toks, i + 1, s, j + 1)
               [] tk.t = "set" ->
                    /\ j <= Len(s)
                    /\ (s[j] \in tk.cs) # tk.neg
                    /\ re_match_from(toks, i + 1, s, j + 1)
               [] tk.t = "end" ->
                    /\ \/ j > Len(s)
                       \/ tk.nl /\ j = Len(s) /\ s[j] = "\n"
                    /\ re_match_from(toks, i + 1, s, j)

\* str.lower on the characters of the model
Lower(c) == IF c = "A" THEN "a" ELSE IF c = "B" THEN "b" ELSE c

\* os.path.normcase(s): on nt lower case and "\" for "/"
normcase(os, s) ==
    IF os = "nt"
    THEN [k \in 1..Len(s) |-> IF s[k] = "/" THEN "\\" ELSE Lower(s[k])]
    ELSE s

\* fnmatch.fnmatch(name, pat), whose translate is helpers.translate on nt
fnmatch(os, name, pat) ==
    LET n == normcase(os, name)
        q == normcase(os, pat)
    IN  re_match_from(IF os = "nt" THEN translate(q) ELSE py_translate(q), 1, n, 1)

-----------------------------------------------------------------------------
(* os.path on path strings.  The working directory is the root of the      *)
(* filesystem ("/" on posix, "C:\" on nt), and a node path is the sequence *)
(* of the names from the root to an entry.                                 *)

\* os.sep
sep(os) == IF os = "nt" THEN "\\" ELSE "/"

\* the characters the host treats as separators
Seps(os) == IF os = "nt" THEN {"\\", "/"} ELSE {"/"}

\* the spelling of the root directory
RootStr(os) == IF os = "nt" THEN <<"C", ":", "\\">> ELSE <<"/">>

\* a path string without its drive ("C:") on nt
StripDrive(os, s) ==
    IF os = "nt" /\ Len(s) >= 2 /\ s[2] = ":" THEN SubSeq(s, 3, Len(s)) ELSE s

\* the names of a path string: its maximal runs of non-separator characters
RECURSIVE SplitFrom(_, _, _, _)
SplitFrom(s, seps, i, cur) ==
    IF i > Len(s) THEN (IF cur = <<>> THEN <<>> ELSE <<cur>>)
    ELSE IF s[i] \in seps
         THEN (IF cur = <<>> THEN <<>> ELSE <<cur>>) \o SplitFrom(s, seps, i + 1, <<>>)
         ELSE SplitFrom(s, seps, i + 1, Append(cur, s[i]))

\* the node a path string names (relative strings start at the root)
Resolve(os, s) == SplitFrom(StripDrive(os, s), Seps(os), 1, <<>>)

\* os.path.join(a, name) for a name that holds no separator
join(os, a, name) ==
    IF a = <<>> THEN name
    ELSE IF a[Len(a)] \in Seps(os) \/ (os = "nt" /\ a[Len(a)] = ":") THEN a \o name
    ELSE a \o <<sep(os)>> \o name

\* the string of a node path below the string base
RECURSIVE JoinAll(_, _, _)
JoinAll(os, base, p) ==
    IF p = <<>> THEN base ELSE JoinAll(os, join(os, base, Head(p)), Tail(p))

\* os.path.realpath(s) in a filesystem without links
realpath(os, s) ==
    LET p == Resolve(os, s)
    IN  IF p = <<>> THEN RootStr(os) ELSE JoinAll(os, RootStr(os), p)

\* os.path.basename(s)
RECURSIVE basename(_, _)
basename(os, s) ==
    IF s = <<>> \/ s[Len(s)] \in Seps(os) \/ (os = "nt" /\ Len(s) = 2 /\ s[2] = ":")
    THEN <<>>
    ELSE Append(basename(os, SubSeq(s, 1, Len(s) - 1)), s[Len(s)])

\* a path string without the separators at its end
RECURSIVE rstrip_seps(_, _)
rstrip_seps(os, s) ==
    IF s # <<>> /\ s[Len(s)] \in Seps(os)
    THEN rstrip_seps(os, SubSeq(s, 1, Len(s) - 1))
    ELSE s

\* os.path.dirname(s): what stands before the basename, without the
\* separators at its end unless it is a root
dirname(os, s) ==
    LET head == SubSeq(s, 1, Len(s) - Len(basename(os, s)))
        tail == StripDrive(os, head)
        drive == SubSeq(head, 1, Len(head) - Len(tail))
    IN  IF rstrip_seps(os, tail) = <<>> THEN head ELSE drive \o rstrip_seps(os, tail)

-----------------------------------------------------------------------------
(* The filesystem: a function from node paths to entries.  The root is a   *)
(* directory and has no entry of its own.                                  *)

IsPrefix(p, q) == Len(p) <= Len(q) /\ SubSeq(q, 1, Len(p)) = p

Parent(p) == SubSeq(p, 1, Len(p) - 1)

node_exists(f, p) == p = <<>> \/ p \in DOMAIN f
node_isdir(f, p) == p = <<>> \/ (p \in DOMAIN f /\ f[p].kind = "dir")
node_isfile(f, p) == p \in DOMAIN f /\ f[p].kind = "file"

\* the entries directly inside p
Children(f, p) == {q \in DOMAIN f : Len(q) = Len(p) + 1 /\ IsPrefix(p, q)}

\* p and everything below it
Below(f, p) == {q \in DOMAIN f : IsPrefix(p, q)}

\* the entry at p with everything below it, as pairs <<path relative to p, entry>>
Subtree(f, p) == {<<SubSeq(q, Len(p) + 1, Len(q)), f[q]>> : q \in Below(f, p)}

\* f without the entries ps
Without(f, ps) == [q \in DOMAIN f \ ps |-> f[q]]

\* f with the entry e at p
WithEntry(f, p, e) == [q \in DOMAIN f \cup {p} |-> IF q = p THEN e ELSE f[q]]

DirEntry == [kind |-> "dir", data |-> <<>>]
FileEntry(d) == [kind |-> "file", data |-> d]

\* the proper ancestors of p, the root excluded
Ancestors(p) == {SubSeq(p, 1, k) : k \in 1..(Len(p) - 1)}

\* f with the subtree t (as Subtree gives it) put at p
Graft(f, p, t) ==
    LET new == {p \o x[1] : x \in t}
    IN  [q \in DOMAIN f \cup new |->
            IF q \in new
            THEN (CHOOSE x \in t : p \o x[1] = q)[2]
            ELSE f[q]]

\* os.path.exists / isfile / isdir on a path string
exists(os, f, s) == s # <<>> /\ node_exists(f, Resolve(os, s))
isfile(os, f, s) == s # <<>> /\ node_isfile(f, Resolve(os, s))
isdir(os, f, s) == s # <<>> /\ node_isdir(f, Resolve(os, s))

-----------------------------------------------------------------------------
(* The os and shutil calls the handle makes, on node paths.  Each gives    *)
(* [ok, fs]: ok is FALSE when the call raises OSError, and fs is the       *)
(* filesystem it leaves.                                                   *)

Failed(f) == [ok |-> FALSE, fs |-> f]
Done(f) == [ok |-> TRUE, fs |-> f]

\* open(path, "wb+") / open(path, "w+") of an absent path: an empty file
os_open_create(f, p) ==
    IF node_isdir(f, Parent(p)) /\ ~ node_isdir(f, p)
    THEN Done(WithEntry(f, p, FileEntry(<<>>)))
    ELSE Failed(f)

\* os.mkdir(path) of an absent path
os_mkdir(f, p) ==
    IF node_isdir(f, Parent(p)) /\ ~ node_exists(f, p)
    THEN Done(WithEntry(f, p, DirEntry))
    ELSE Failed(f)

\* os.remove(path) of a regular file
os_remove(f, p) == Done(Without(f, {p}))

\* os.rmdir(path): only an empty directory goes
os_rmdir(f, p) ==
    IF Children(f, p) = {} THEN Done(Without(f, {p})) ELSE Failed(f)

\* shutil.copyfile(src, dst) of a regular file src
shutil_copyfile(f, s, d) ==
    IF d = s \/ node_isdir(f, d) \/ ~ node_isdir(f, Parent(d))
    THEN Failed(f)
    ELSE Done(WithEntry(f, d, FileEntry(f[s].data)))

\* shutil.rmtree(path) of an existing path
shutil_rmtree(f, p) ==
    IF node_isdir(f, p) THEN Done(Without(f, Below(f, p))) ELSE Failed(f)

\* copytree lists a directory before it makes the destination, so a copy
\* into an existing subdirectory of the source copies its own output until
\* the path is too long for the host
copytree_runs_away(f, s, d) ==
    /\ IsPrefix(s, d)
    /\ Len(d) > Len(s) + 1
    /\ SubSeq(d, 1, Len(s) + 1) \in DOMAIN f

\* shutil.copytree(src, dst) to an absent dst: os.makedirs(dst), then the
\* entries src had when it was listed
shutil_copytree(f, s, d) ==
    IF ~ node_isdir(f, s) \/ (\E a \in Ancestors(d) : node_isfile(f, a))
    THEN Failed(f)
    ELSE LET made == [q \in DOMAIN f \cup Ancestors(d) |->
                         IF q \in DOMAIN f THEN f[q] ELSE DirEntry]
         IN  Done(Graft(made, d, Subtree(f, s)))

\* shutil.move(src, dst) to an absent dst: os.rename, and when that fails
\* copytree and rmtree for a directory, copy2 and unlink for a file
shutil_move(f, s, d) ==
    IF node_isdir(f, Parent(d)) /\ ~ IsPrefix(s, d)
    THEN Done(Graft(Without(f, Below(f, s)), d, Subtree(f, s)))
    ELSE IF node_isdir(f, s) /\ ~ IsPrefix(s, d)
         THEN LET c == shutil_copytree(f, s, d)
              IN  IF c.ok THEN shutil_rmtree(c.fs, s) ELSE Failed(f)
         ELSE Failed(f)

\* filecmp.cmp(a, b): both regular files with the same content
filecmp_cmp(f, a, b) ==
    node_isfile(f, a) /\ node_isfile(f, b) /\ f[a].data = f[b].data

\* filecmp.dircmp(a, b).common_files: the names that are regular files in both
common_files(f, a, b) ==
    {q[Len(q)] : q \in {c \in Children(f, a) :
        /\ node_isfile(f, c)
        /\ node_isfile(f, Append(b, c[Len(c)]))}}

-----------------------------------------------------------------------------
(* exceptions.py: the base class of each exception.                        *)

BaseOf(exc) ==
    CASE exc = "FileNotFoundException" -> "FileInfoError"
      [] exc = "FileAlreadyExistsException" -> "FileInfoError"
      [] exc = "DirectoryAlreadyExistsException" -> "FileAlreadyExistsException"
      [] exc = "DirectoryNotFoundException" -> "FileNotFoundException"
      [] exc = "NotSupportedException" -> "FileInfoError"
      [] exc = "InvalidPathException" -> "FileInfoError"
      [] exc = "FileInfoError" -> "OSError"
      [] exc = "UnauthorizedAccessException" -> "OSError"
      [] exc = "FileNotFoundError" -> "OSError"
      [] exc = "TypeError" -> "Exception"
      [] OTHER -> "none"

\* isinstance(exc, cls)
RECURSIVE IsA(_, _)
IsA(exc, cls) == exc # "none" /\ (exc = cls \/ IsA(BaseOf(exc), cls))

-----------------------------------------------------------------------------
(* The handle and the record of the last call.                             *)

EmptyFs == [q \in {} |-> DirEntry]

\* DirectorySearchOption
TopDirectoryOnly == 0
AllDirectories == 1

NoHandle == [made |-> FALSE, path |-> <<>>]

\* a call: its name, the location and overwrite arguments, the exception it
\* raised, what it returned, the filesystem and the handle's path before it,
\* the backup argument of replace, the option argument of
\* get_directory_length, and whether it is compare_with(dest) right after a copy_to(dest) that
\* returned and found dest absent
Rec(op, location, overwrite, exc, ret, chained) ==
    [op |-> op, location |-> location, overwrite |-> overwrite, exc |-> exc,
     ret |-> ret, pre |-> fs, path0 |-> fi.path, chained |-> chained,
     backup |-> <<>>, option |-> TopDirectoryOnly]

NoCall ==
    [op |-> "none", location |-> <<>>, overwrite |-> FALSE, exc |-> "none",
     ret |-> "none", pre |-> EmptyFs, path0 |-> <<>>, chained |-> FALSE,
     backup |-> <<>>, option |-> TopDirectoryOnly]

\* a generator: where it stands ("idle" before the call, "walking" inside
\* the while loop, "done" when it is exhausted, "raised"), its arguments,
\* pathlist and lx, the path strings of the handles it has yielded, the
\* directories it has listed and the exception that ended it
Gen(pc, flavour, search, option, pathlist, lx, out, listed, exc) ==
    [pc |-> pc, flavour |-> flavour, search |-> search, option |-> option,
     pathlist |-> pathlist, lx |-> lx, out |-> out, listed |-> listed, exc |-> exc]

NoWalk == Gen("idle", "none", <<>>, TopDirectoryOnly, <<>>, 0, <<>>, <<>>, "none")

\* str(bool(x))
Bool(x) == IF x THEN "True" ELSE "False"

\* the outcome of a method: the filesystem it leaves, the handle's path, the
\* exception raised ("none" when it returns) and the value returned
Raise(exc) == [fs |-> fs, path |-> fi.path, exc |-> exc, ret |-> "none"]
Return(f, path, ret) == [fs |-> f, path |-> path, exc |-> "none", ret |-> ret]

\* a variant in which the handle's path is assigned before the call is made
Finish_path_first(r, path, ret) ==
    [fs |-> r.fs, path |-> path, exc |-> IF r.ok THEN "none" ELSE "OSError",
     ret |-> IF r.ok THEN ret ELSE "none"]

\* an os or shutil call that ends the method: OSError, or the return value
Finish(r, path, ret) ==
    IF r.ok THEN Return(r.fs, path, ret)
    ELSE [fs |-> r.fs, path |-> fi.path, exc |-> "OSError", ret |-> "none"]

\* FileInfo.__init__(path) for a str argument
Construct(path) ==
    /\ IF is_valid_path(path)
       THEN /\ fi' = [made |-> TRUE, path |-> path]
            /\ call' = Rec("__init__", path, FALSE, "none", "none", FALSE)
       ELSE /\ fi' = fi
            /\ call' = Rec("__init__", path, FALSE, "InvalidPathException", "none", FALSE)
    /\ UNCHANGED <<osname, fs, walk, flags>>

-----------------------------------------------------------------------------
(* The methods of FileInfo.  Each operator gives the outcome of the method *)
(* on the handle fi in the filesystem fs; the action of the same name with *)
(* a capital letter applies it.                                            *)

\* FileInfo.create(): open(path, 'wb+') unless something is there
create ==
    IF ~ exists(osname, fs, fi.path)
    THEN Finish(os_open_create(fs, Resolve(osname, fi.path)), fi.path, "file object")
    ELSE Raise("FileAlreadyExistsException")

\* FileInfo.create_text(): open(path, 'w+') unless something is there
create_text ==
    IF ~ exists(osname, fs, fi.path)
    THEN Finish(os_open_create(fs, Resolve(osname, fi.path)), fi.path, "file object")
    ELSE Raise("FileAlreadyExistsException")

\* a variant that raises the exception of create() for a directory too
create_directory_as_file ==
    IF ~ exists(osname, fs, fi.path)
    THEN Finish(os_mkdir(fs, Resolve(osname, fi.path)), fi.path, "None")
    ELSE Raise("FileAlreadyExistsException")

\* FileInfo.create_directory()
create_directory ==
    IF ~ exists(osname, fs, fi.path)
    THEN Finish(os_mkdir(fs, Resolve(osname, fi.path)), fi.path, "None")
    ELSE Raise("DirectoryAlreadyExistsException")

\* FileInfo.open() with its default flags "rb+", and the caller writing the
\* data d through the file object it returns
open_and_write(d) ==
    IF isfile(osname, fs, fi.path) \/ ~ exists(osname, fs, fi.path)
    THEN IF isfile(osname, fs, fi.path)
         THEN Return(WithEntry(fs, Resolve(osname, fi.path), FileEntry(d)),
                     fi.path, "file object")
         ELSE Finish(Failed(fs), fi.path, "none")
    ELSE Raise("UnauthorizedAccessException")

\* a variant that copies a file whatever is at the destination
file_may_be_written_always(location, overwrite) == TRUE

\* copy_to's test before shutil.copyfile
file_may_be_written(location, overwrite) ==
    overwrite \/ ~ exists(osname, fs, location)

\* FileInfo.copy_to(location, overwrite)
copy_to(location, overwrite) ==
    LET src == Resolve(osname, fi.path)
        dst == Resolve(osname, location)
    IN  IF exists(osname, fs, fi.path)
        THEN IF ~ is_valid_path(location)
             THEN Raise("InvalidPathException")
             ELSE IF isfile(osname, fs, fi.path)
             THEN IF file_may_be_written(location, overwrite)
                  THEN Finish(shutil_copyfile(fs, src, dst), fi.path, "FileInfo")
                  ELSE Raise("FileAlreadyExistsException")
             ELSE IF isdir(osname, fs, fi.path)
             THEN IF exists(osname, fs, location)
                  THEN IF overwrite
                       THEN LET r == shutil_rmtree(fs, dst)
                            IN  IF r.ok
                                THEN Finish(shutil_copytree(r.fs, src, dst),
                                            fi.path, "FileInfo")
                                ELSE Finish(r, fi.path, "none")
                       ELSE Raise("DirectoryAlreadyExistsException")
                  ELSE Finish(shutil_copytree(fs, src, dst), fi.path, "FileInfo")
             ELSE Raise("NotSupportedException")
        ELSE Raise("DirectoryNotFoundException")

\* a variant that leaves the handle's path as it was
moved_path_kept(location) == fi.path

\* move_to's `self.__path = location`
moved_path(location) == location

\* FileInfo.name: os.path.basename(self.full_path)
self_name == basename(osname, realpath(osname, fi.path))

\* FileInfo.directory_name: os.path.dirname(self.full_path)
directory_name == dirname(osname, realpath(osname, fi.path))

\* the body of FileInfo.move_to(location), run on the filesystem f
move_to_in(f, location) ==
    LET src == Resolve(osname, fi.path)
        dst == Resolve(osname, location)
        Refuse(exc) == [fs |-> f, path |-> fi.path, exc |-> exc, ret |-> "none"]
    IN  IF exists(osname, f, fi.path)
        THEN IF ~ is_valid_path(location)
             THEN Refuse("InvalidPathException")
             ELSE IF ~ exists(osname, f, location)
             THEN Finish(shutil_move(f, src, dst), moved_path(location), "None")
             ELSE Refuse("DirectoryAlreadyExistsException")
        ELSE Refuse("DirectoryNotFoundException")

\* FileInfo.move_to(location)
move_to(location) == move_to_in(fs, location)

\* FileInfo.move_to_directory(directory)
move_to_directory(directory) ==
    IF directory = directory_name THEN Return(fs, fi.path, "None")
    ELSE IF isfile(osname, fs, directory) THEN Raise("NotSupportedException")
    ELSE move_to(join(osname, directory, self_name))

\* FileInfo.replace(file, backup): file goes to backup, then the entry of
\* the handle goes to file
replace(file, backup) ==
    IF exists(osname, fs, file)
    THEN IF ~ is_valid_path(backup)
         THEN Raise("InvalidPathException")
         ELSE IF ~ exists(osname, fs, backup)
         THEN LET r == shutil_move(fs, Resolve(osname, file), Resolve(osname, backup))
              IN  IF r.ok THEN move_to_in(r.fs, file) ELSE Finish(r, fi.path, "none")
         ELSE Raise("FileAlreadyExistsException")
    ELSE Raise("FileNotFoundException")

\* FileInfo.delete_tree() with its default arguments
delete_tree ==
    IF exists(osname, fs, fi.path)
    THEN IF isdir(osname, fs, fi.path)
         THEN Finish(shutil_rmtree(fs, Resolve(osname, fi.path)), fi.path, "None")
         ELSE Raise("NotSupportedException")
    ELSE Raise("DirectoryNotFoundException")

\* a variant of rename's test that takes any string for a bare name
is_basename_any(new) == TRUE

\* rename's test `name != os.path.basename(name)`, negated
is_basename(new) == new = basename(osname, new)

\* FileInfo.rename(name)
rename(new) ==
    IF new = self_name THEN Return(fs, fi.path, "None")
    ELSE IF ~ is_basename(new) THEN Raise("NotSupportedException")
    ELSE move_to(join(osname, directory_name, new))

\* the fset of a settable property: name, base_name, full_name and
\* directory_name look up self.Rename, self.MoveTo or self.MoveToDirectory,
\* which FileInfo does not have; extension looks up basestring first, which
\* Python 3 does not have
fset(attr, new) ==
    IF attr = "extension" THEN Raise("NameError") ELSE Raise("AttributeError")

\* FileInfo.delete()
delete ==
    LET p == Resolve(osname, fi.path)
    IN  IF exists(osname, fs, fi.path)
        THEN IF isfile(osname, fs, fi.path)
             THEN Finish(os_remove(fs, p), fi.path, "None")
             ELSE IF isdir(osname, fs, fi.path)
             THEN Finish(os_rmdir(fs, p), fi.path, "None")
             ELSE Raise("NotSupportedException")
        ELSE Raise("DirectoryNotFoundException")

\* FileInfo.compare_with(other) for a path string other
compare_with(other) ==
    LET a == Resolve(osname, fi.path)
        b == Resolve(osname, other)
    IN  IF exists(osname, fs, fi.path)
        THEN IF exists(osname, fs, other)
             THEN IF isfile(osname, fs, fi.path)
                  THEN Return(fs, fi.path, Bool(filecmp_cmp(fs, a, b)))
                  ELSE IF isdir(osname, fs, fi.path)
                  THEN IF isdir(osname, fs, other)
                       THEN LET commfiles == common_files(fs, a, b)
                            IN  Return(fs, fi.path,
                                    Bool(/\ commfiles # {}
                                         /\ \A n \in commfiles :
                                              filecmp_cmp(fs, Append(a, n), Append(b, n))))
                       ELSE Return(fs, fi.path, "False")
                  ELSE Raise("NotSupportedException")
             ELSE Raise("DirectoryNotFoundException")
        ELSE Raise("DirectoryNotFoundException")

-----------------------------------------------------------------------------
(* The entries and the path strings of the model.                          *)

\* the names of entries
Names == {<<"a">>, <<"b">>}

\* the content of a regular file: empty, or one byte
Data == {<<>>, <<"x">>}

NodePaths == UNION {[1..k -> Names] : k \in 1..MaxDepth}

\* what a method leaves stays within the depth of the model
InBounds(f) == DOMAIN f \subseteq NodePaths

Entries == {DirEntry} \cup {FileEntry(d) : d \in Data}

\* every entry but those of the root lies in a directory
WellFormed(f) ==
    \A q \in DOMAIN f : Len(q) > 1 => node_isdir(f, Parent(q))

\* the filesystems a behaviour starts in
Filesystems ==
    {f \in UNION {[D -> Entries] :
                    D \in {D \in SUBSET NodePaths : Cardinality(D) <= MaxEntries}} :
        WellFormed(f)}

\* a path string the constructor rejects
InvalidLocation == <<"a", "?">>

\* the path strings given to the constructor and to the methods
Locations == {JoinAll(osname, <<>>, p) : p \in NodePaths} \cup {InvalidLocation}

\* a method of the handle, called with these arguments, ends with outcome out
Apply(op, location, overwrite, out, chained) ==
    /\ fi.made
    /\ InBounds(out.fs)
    /\ fs' = out.fs
    /\ fi' = [fi EXCEPT !.path = out.path]
    /\ call' = Rec(op, location, overwrite, out.exc, out.ret, chained)
    /\ UNCHANGED <<osname, walk, flags>>

Create == Apply("create", <<>>, FALSE, create, FALSE)

CreateText == Apply("create_text", <<>>, FALSE, create_text, FALSE)

CreateDirectory == Apply("create_directory", <<>>, FALSE, create_directory, FALSE)

OpenAndWrite == \E d \in Data : Apply("open", <<>>, FALSE, open_and_write(d), FALSE)

CopyTo ==
    \E location \in Locations, overwrite \in BOOLEAN :
        /\ ~ copytree_runs_away(fs, Resolve(osname, fi.path), Resolve(osname, location))
        /\ Apply("copy_to", location, overwrite, copy_to(location, overwrite), FALSE)

MoveTo == \E location \in Locations : Apply("move_to", location, FALSE, move_to(location), FALSE)

\* the names given to rename: a bare name, a path, a name with a reserved
\* character
RenameNames ==
    Names \cup {JoinAll(osname, <<>>, <<<<"a">>, <<"b">>>>), InvalidLocation}

Rename == \E new \in RenameNames : Apply("rename", new, FALSE, rename(new), FALSE)

\* the settable properties
Settable == {"name", "base_name", "extension", "full_name", "directory_name"}

\* handle.attr = new; an extension starts with a dot
SetAttr ==
    \E attr \in Settable, new \in Names :
        Apply(attr, IF attr = "extension" THEN <<".">> \o new ELSE new, FALSE,
              fset(attr, IF attr = "extension" THEN <<".">> \o new ELSE new), FALSE)

\* the directories given to move_to_directory
Directories == Locations \cup {RootStr(osname)}

MoveToDirectory ==
    \E directory \in Directories :
        Apply("move_to_directory", directory, FALSE, move_to_directory(directory), FALSE)

\* the backup arguments of replace
Backups ==
    {JoinAll(osname, <<>>, <<<<"b">>>>), JoinAll(osname, <<>>, <<<<"a">>, <<"b">>>>),
     InvalidLocation}

Replace ==
    \E file \in Locations, backup \in Backups :
        LET out == replace(file, backup)
        IN  /\ fi.made
            /\ InBounds(out.fs)
            /\ fs' = out.fs
            /\ fi' = [fi EXCEPT !.path = out.path]
            /\ call' = [Rec("replace", file, FALSE, out.exc, out.ret, FALSE)
                           EXCEPT !.backup = backup]
            /\ UNCHANGED <<osname, walk, flags>>

DeleteTree == Apply("delete_tree", <<>>, FALSE, delete_tree, FALSE)

Delete == Apply("delete", <<>>, FALSE, delete, FALSE)

CompareWith ==
    \E other \in Locations :
        Apply("compare_with", other, FALSE, compare_with(other),
              /\ call.op = "copy_to"
              /\ call.exc = "none"
              /\ call.location = other
              /\ ~ exists(osname, call.pre, other))

-----------------------------------------------------------------------------
(* iter_files, iter_directories and iter_items.                            *)

\* the orders in which os.listdir may give the names of the directory p
Listings(f, p) ==
    LET names == {q[Len(q)] : q \in Children(f, p)}
    IN  {ord \in [1..Cardinality(names) -> names] :
            \A m, n \in 1..Cardinality(names) : m # n => ord[m] # ord[n]}

\* a variant of the first test that accepts whatever exists
receiver_exists == exists(osname, fs, fi.path)

\* `if not os.path.isdir(self.original_path)`, the first test of each generator
receiver_is_dir == isdir(osname, fs, fi.path)

\* a variant that yields every child the pattern matches, whatever its kind
yields_any_kind(flavour, next, name, search) == fnmatch(osname, name, search)

\* the test under which the generator of a flavour yields FileInfo(next)
yields(flavour, next, name, search) ==
    CASE flavour = "files" -> isfile(osname, fs, next) /\ fnmatch(osname, name, search)
      [] flavour = "directories" -> isdir(osname, fs, next) /\ fnmatch(osname, name, search)
      [] flavour = "items" -> fnmatch(osname, name, search)

\* a variant that walks into a directory only when the pattern matches its name
enqueues_matching(flavour, next, name, search) ==
    isdir(osname, fs, next) /\ fnmatch(osname, name, search)

\* the test under which the AllDirectories loop does `pathlist += [next]`
enqueues(flavour, next, name, search) ==
    CASE flavour = "files" ->
            /\ ~ (isfile(osname, fs, next) /\ fnmatch(osname, name, search))
            /\ isdir(osname, fs, next)
      [] flavour = "directories" -> isdir(osname, fs, next)
      [] flavour = "items" -> isdir(osname, fs, next)

\* `for name in os.listdir(base)` from the k-th name of the listing ord:
\* the path strings yielded, the directories appended to pathlist, and
\* whether FileInfo(next) raised InvalidPathException, which ends the loop
RECURSIVE listing_loop(_, _, _, _, _)
listing_loop(flavour, base, ord, k, search) ==
    IF k > Len(ord) THEN [out |-> <<>>, dirs |-> <<>>, raised |-> FALSE]
    ELSE LET name == ord[k]
             next == join(osname, base, name)
             y == yields(flavour, next, name, search)
             e == enqueues(flavour, next, name, search)
         IN  IF y /\ ~ is_valid_path(next)
             THEN [out |-> <<>>, dirs |-> <<>>, raised |-> TRUE]
             ELSE LET rest == listing_loop(flavour, base, ord, k + 1, search)
                  IN  [out |-> (IF y THEN <<next>> ELSE <<>>) \o rest.out,
                       dirs |-> (IF e THEN <<next>> ELSE <<>>) \o rest.dirs,
                       raised |-> rest.raised]

\* the generator is made and run to its first directory: the isdir test,
\* then the whole TopDirectoryOnly loop, or pathlist = [self.full_path]
IterStart(flavour, search, option) ==
    /\ fi.made
    /\ walk.pc = "idle"
    /\ IF ~ receiver_is_dir
       THEN walk' = Gen("raised", flavour, search, option, <<>>, 0, <<>>, <<>>,
                        "NotSupportedException")
       ELSE IF option = TopDirectoryOnly
       THEN \E ord \in Listings(fs, Resolve(osname, fi.path)) :
                LET r == listing_loop(flavour, fi.path, ord, 1, search)
                IN  walk' = Gen(IF r.raised THEN "raised" ELSE "done",
                                flavour, search, option, <<>>, 0, r.out, <<fi.path>>,
                                IF r.raised THEN "InvalidPathException" ELSE "none")
       ELSE walk' = Gen("walking", flavour, search, option,
                        <<realpath(osname, fi.path)>>, 1, <<>>, <<>>, "none")
    /\ UNCHANGED <<osname, fs, fi, call, flags>>

\* a variant that puts the directories found in front of those pending
requeue_in_front(pathlist, dirs) == dirs \o Tail(pathlist)

\* pathlist after a round: `pathlist += [next]` for each directory found,
\* then `del pathlist[0]`
requeue(pathlist, dirs) == Tail(pathlist \o dirs)

\* one round of `while lx`: pathlist[0] is listed, its children are yielded
\* and appended, `del pathlist[0]` and `lx -= 1`
IterExpand ==
    /\ walk.pc = "walking"
    /\ walk.lx # 0
    /\ \E ord \in Listings(fs, Resolve(osname, walk.pathlist[1])) :
          LET r == listing_loop(walk.flavour, walk.pathlist[1], ord, 1, walk.search)
              lx == walk.lx + Len(r.dirs) - 1
          IN  walk' =
                IF r.raised
                THEN [walk EXCEPT !.pc = "raised", !.exc = "InvalidPathException",
                                  !.out = @ \o r.out,
                                  !.listed = Append(@, walk.pathlist[1])]
                ELSE [walk EXCEPT !.pc = IF lx = 0 THEN "done" ELSE "walking",
                                  !.pathlist = requeue(@, r.dirs),
                                  !.lx = lx,
                                  !.out = @ \o r.out,
                                  !.listed = Append(@, walk.pathlist[1])]
    /\ UNCHANGED <<osname, fs, fi, call, flags>>

\* fnmatch.fnmatch(name, pat) as the generators call it
Fnmatch(name, pat) ==
    /\ call' = [Rec("fnmatch", name, FALSE, "none",
                    IF fnmatch(osname, name, pat) THEN "True" ELSE "False", FALSE)
                EXCEPT !.path0 = pat]
    /\ UNCHANGED <<osname, fs, fi, walk, flags>>

-----------------------------------------------------------------------------
(* __eq__, __len__, length and get_directory_length.                       *)

\* a variant of samefile that compares no more than the device
samefile_same_device(f, a, b) ==
    IF exists(osname, f, a) /\ exists(osname, f, b)
    THEN [ok |-> TRUE, same |-> TRUE]
    ELSE [ok |-> FALSE, same |-> FALSE]

\* os.path.samefile(a, b): os.stat of both, then the same file or not
samefile(f, a, b) ==
    IF exists(osname, f, a) /\ exists(osname, f, b)
    THEN [ok |-> TRUE, same |-> Resolve(osname, a) = Resolve(osname, b)]
    ELSE [ok |-> FALSE, same |-> FALSE]

\* FileInfo.full_path
full_path == realpath(osname, fi.path)

\* FileInfo.__eq__(other): other is FileInfo(location) when isinstance
\* holds, and the string location itself when not
eq(location, isinstance) ==
    IF isinstance
    THEN LET r == samefile(fs, full_path, realpath(osname, location))
         IN  IF r.ok THEN Return(fs, fi.path, Bool(r.same))
             ELSE Raise("FileNotFoundError")
    ELSE Return(fs, fi.path, "False")

\* FileInfo(path).length: os.path.getsize of an existing regular file
length(path) ==
    IF exists(osname, fs, path)
    THEN [exc |-> "none", size |-> Len(fs[Resolve(osname, path)].data)]
    ELSE [exc |-> "FileNotFoundException", size |-> 0]

\* one round of iter_files' loop: the files of the directory path that match
\* search, and its subdirectories
list_files(path, search) ==
    listing_loop("files", path,
                 CHOOSE o \in Listings(fs, Resolve(osname, path)) : TRUE, 1, search)

\* iter_files(search, AllDirectories) run to its end from the queue pathlist,
\* out being what was yielded so far
RECURSIVE iter_files_all(_, _, _)
iter_files_all(pathlist, search, out) ==
    IF pathlist = <<>> THEN [out |-> out, raised |-> FALSE]
    ELSE IF list_files(pathlist[1], search).raised
    THEN [out |-> out \o list_files(pathlist[1], search).out, raised |-> TRUE]
    ELSE iter_files_all(Tail(pathlist) \o list_files(pathlist[1], search).dirs, search,
                        out \o list_files(pathlist[1], search).out)

\* iter_files(search, option) of a directory, run to its end
iter_files(search, option) ==
    IF option = TopDirectoryOnly
    THEN [out |-> list_files(fi.path, search).out,
          raised |-> list_files(fi.path, search).raised]
    ELSE iter_files_all(<<full_path>>, search, <<>>)

\* `length += fi.length` over the handles of paths
RECURSIVE sum_lengths(_)
sum_lengths(paths) ==
    IF paths = <<>> THEN 0 ELSE length(paths[1]).size + sum_lengths(Tail(paths))

\* FileInfo.get_directory_length(option, search)
get_directory_length(option, search) ==
    IF ~ receiver_is_dir THEN Raise("NotSupportedException")
    ELSE LET r == iter_files(search, option)
         IN  IF r.raised THEN Raise("InvalidPathException")
             ELSE Return(fs, fi.path, sum_lengths(r.out))

\* a variant of the default of get_directory_length's option
default_option_all == AllDirectories

\* the default of get_directory_length's option argument
default_option == TopDirectoryOnly

\* FileInfo.__len__()
len ==
    IF isdir(osname, fs, fi.path)
    THEN get_directory_length(default_option, <<"*">>)
    ELSE LET l == length(fi.path)
         IN  IF l.exc = "none" THEN Return(fs, fi.path, l.size) ELSE Raise(l.exc)

-----------------------------------------------------------------------------
(* helpers.py: FileAttributes and SecurityInformation.  A flag set is its  *)
(* class and its value, an int of any sign and size; an operand is a flag  *)
(* set, an int, or something else (a str).                                 *)

\* Python's & | ~ on int
RECURSIVE int_and(_, _)
int_and(a, b) ==
    IF a = 0 \/ b = 0 THEN 0
    ELSE IF a = -1 THEN b
    ELSE IF b = -1 THEN a
    ELSE (a % 2) * (b % 2) + 2 * int_and(a \div 2, b \div 2)

RECURSIVE int_or(_, _)
int_or(a, b) ==
    IF a = 0 THEN b
    ELSE IF b = 0 THEN a
    ELSE IF a = -1 \/ b = -1 THEN -1
    ELSE (IF a % 2 = 1 \/ b % 2 = 1 THEN 1 ELSE 0) + 2 * int_or(a \div 2, b \div 2)

int_invert(a) == -a - 1

FlagClasses == {"FileAttributes", "SecurityInformation"}

\* FileAttributes(value) / SecurityInformation(value), an int, a str; same
\* says that the operand is the very object the operator is called on
Obj(class, value, same) == [class |-> class, value |-> value, same |-> same]

\* what an operator gives: the object returned or the exception raised
Gives(obj) == [exc |-> "none", obj |-> obj]
Throws(exc) == [exc |-> exc, obj |-> Obj("none", 0, FALSE)]

\* __invert__
flag_invert(a) == Gives(Obj(a.class, int_invert(a.value), FALSE))

\* a variant of __or__ that keeps the left operand's value
flag_or_left(a, other) ==
    IF other.class = a.class \/ other.class = "int"
    THEN Gives(Obj(a.class, a.value, FALSE))
    ELSE Throws("NotSupportedException")

\* __or__
flag_or(a, other) ==
    IF other.class = a.class
    THEN Gives(Obj(a.class, int_or(a.value, other.value), FALSE))
    ELSE IF other.class = "int"
    THEN Gives(Obj(a.class, int_or(a.value, other.value), FALSE))
    ELSE Throws("NotSupportedException")

\* __and__
flag_and(a, other) ==
    IF other.class = a.class
    THEN Gives(Obj(a.class, int_and(a.value, other.value), FALSE))
    ELSE IF other.class = "int"
    THEN Gives(Obj(a.class, int_and(a.value, other.value), FALSE))
    ELSE Throws("NotSupportedException")

\* `~ other` for any operand: __invert__ of a flag set, ~ of an int,
\* TypeError for a str
invert_operand(other) ==
    IF other.class \in FlagClasses THEN flag_invert(other)
    ELSE IF other.class = "int" THEN Gives(Obj("int", int_invert(other.value), FALSE))
    ELSE Throws("TypeError")

\* __xor__ and __sub__: `self & ~ other`
flag_and_not(a, other) ==
    LET n == invert_operand(other)
    IN  IF n.exc = "none" THEN flag_and(a, n.obj) ELSE n

\* the binary operators: __add__ is `self | other`
flag_binary(op, a, other) ==
    CASE op = "|" -> flag_or(a, other)
      [] op = "&" -> flag_and(a, other)
      [] op = "^" -> flag_and_not(a, other)
      [] op = "+" -> flag_or(a, other)
      [] op = "-" -> flag_and_not(a, other)

\* ==: neither class defines __eq__, so it is object identity
flag_eq(a, other) == other.same

\* the last operation: the operator, its operands, what it gave, what the
\* operands swapped gave (binary operators on two flag sets), and for ~ how
\* many times in a row it was applied and to what at first
Flags(op, a, other, out, rev, depth, origin) ==
    [op |-> op, a |-> a, other |-> other, out |-> out, rev |-> rev,
     depth |-> depth, origin |-> origin]

NoObj == Obj("none", 0, FALSE)

NoFlags == Flags("none", NoObj, NoObj, Throws("none"), Throws("none"), 0, NoObj)

\* a op other; when other is a flag set, other op a as well
FlagBinary(op, a, other) ==
    /\ flags' = Flags(op, a, other, flag_binary(op, a, other),
                      IF other.class \in FlagClasses
                      THEN flag_binary(op, other, a) ELSE Throws("none"),
                      0, a)
    /\ UNCHANGED <<osname, fs, fi, call, walk>>

\* ~ a, for a new flag set or for the one the last ~ gave
FlagInvert(a) ==
    /\ flags' = Flags("~", a, NoObj, flag_invert(a), Throws("none"),
                      IF flags.op = "~" THEN flags.depth + 1 ELSE 1,
                      IF flags.op = "~" THEN flags.origin ELSE a)
    /\ UNCHANGED <<osname, fs, fi, call, walk>>

\* a == other
FlagEq(a, other) ==
    /\ flags' = Flags("==", a, other,
                      Gives(Obj("bool", IF flag_eq(a, other) THEN 1 ELSE 0, FALSE)),
                      Throws("none"), 0, a)
    /\ UNCHANGED <<osname, fs, fi, call, walk>>

\* the class attributes that __repr__ tests, in the order it tests them: the
\* number of the bit (ReadOnly = 0x1 is bit 0) and the name it appends
Registry(class) ==
    IF class = "FileAttributes"
    THEN << <<0, "FileAttributes.ReadOnly">>, <<1, "FileAttributes.Hidden">>,
            <<2, "FileAttributes.System">>, <<4, "FileAttributes.Directory">>,
            <<5, "FileAttributes.Archive">>, <<6, "FileAttributes.Device">>,
            <<7, "FileAttributes.Normal">>, <<8, "FileAttributes.Temporary">>,
            <<9, "FileAttributes.SparseFile">>, <<10, "FileAttributes.ReparsePoint">>,
            <<11, "FileAttributes.Compressed">>, <<12, "FileAttributes.Offline">>,
            <<13, "FileAttributes.NotContentIndexed">>,
            <<14, "FileAttributes.Encrypted">>, <<16, "FileAttributes.Virtual">> >>
    ELSE << <<0, "SecurityInformation.Owner">>, <<1, "SecurityInformation.Group">>,
            <<2, "SecurityInformation.Dacl">>, <<3, "SecurityInformation.Sacl">>,
            <<4, "SecurityInformation.Label">>, <<5, "SecurityInformation.Attribute">>,
            <<6, "SecurityInformation.Scope">>, <<16, "SecurityInformation.Backup">>,
            <<28, "SecurityInformation.UnprotectedSacl">>,
            <<29, "SecurityInformation.UnprotectedDacl">>,
            <<30, "SecurityInformation.ProtectedSacl">>,
            <<31, "SecurityInformation.ProtectedDacl">> >>

\* a variant of the bit test that looks at the lowest bit only
has_bit_lowest(value, k) == value % 2 = 1

\* `value & (1 << k)` is not zero
RECURSIVE has_bit(_, _)
has_bit(value, k) ==
    IF k = 0 THEN value % 2 = 1 ELSE has_bit(value \div 2, k - 1)

\* the list ret of __repr__ after the tests from the i-th on
RECURSIVE repr_names(_, _, _)
repr_names(class, value, i) ==
    IF i > Len(Registry(class)) THEN <<>>
    ELSE (IF has_bit(value, Registry(class)[i][1])
          THEN <<Registry(class)[i][2]>> ELSE <<>>)
         \o repr_names(class, value, i + 1)

\* glue.join(ret), as the sequence of its pieces; the empty string is <<>>
RECURSIVE str_join(_, _)
str_join(glue, ret) ==
    IF ret = <<>> THEN <<>>
    ELSE IF Len(ret) = 1 THEN ret
    ELSE <<ret[1], glue>> \o str_join(glue, Tail(ret))

\* __repr__
flag_repr(a) == Gives(Obj("str", str_join(" | ", repr_names(a.class, a.value, 1)), FALSE))

\* repr(a)
FlagRepr(a) ==
    /\ flags' = Flags("repr", a, NoObj, flag_repr(a), Throws("none"), 0, a)
    /\ UNCHANGED <<osname, fs, fi, call, walk>>

-----------------------------------------------------------------------------
(* SpecPath: the constructor applied to every short string over the        *)
(* reserved characters, the colon and an ordinary character.               *)

PathChars == ReservedChars \cup {":", "a"}

PathInputs == StringsUpTo(PathChars, MaxLen)

InitPath ==
    /\ osname \in {"nt", "posix"}
    /\ fs = EmptyFs
    /\ fi = NoHandle
    /\ call = NoCall
    /\ walk = NoWalk
    /\ flags = NoFlags

NextPath == call.op = "none" /\ \E path \in PathInputs : Construct(path)

SpecPath == InitPath /\ [][NextPath]_vars

-----------------------------------------------------------------------------
(* Spec: on any filesystem of the model a handle is built from a path     *)
(* string and one of its methods is called; compare_with may also follow   *)
(* a copy_to that returned.  Every filesystem within the bounds is an      *)
(* initial state, so a call made later in a longer sequence of calls is    *)
(* the call of some behaviour here.                                        *)

Init ==
    /\ osname \in {"nt", "posix"}
    /\ fs \in Filesystems
    /\ fi = NoHandle
    /\ call = NoCall
    /\ walk = NoWalk
    /\ flags = NoFlags

\* the handle has just been built
Fresh == call.op = "__init__" /\ call.exc = "none"

\* the handle's copy_to has just returned
Copied == call.op = "copy_to" /\ call.exc = "none"

Next ==
    \/ call.op = "none" /\ \E path \in Locations : Construct(path)
    \/ Fresh /\ Create
    \/ Fresh /\ CreateText
    \/ Fresh /\ CreateDirectory
    \/ Fresh /\ OpenAndWrite
    \/ Fresh /\ CopyTo
    \/ Fresh /\ MoveTo
    \/ Fresh /\ Rename
    \/ Fresh /\ SetAttr
    \/ Fresh /\ MoveToDirectory
    \/ Fresh /\ Replace
    \/ Fresh /\ DeleteTree
    \/ Fresh /\ Delete
    \/ (Fresh \/ Copied) /\ CompareWith

Spec == Init /\ [][Next]_vars

-----------------------------------------------------------------------------
(* SpecWalk: on any filesystem of the model a handle is built, for one of  *)
(* its entries or for the root, and one generator is made and run to its   *)
(* end.                                                                    *)

\* the search patterns: every name, the name a, and no name of the model
SearchPatterns == {<<"*">>, <<"a">>, <<"a", "?">>}

Flavours == {"files", "directories", "items"}

WalkLocations == (Locations \ {InvalidLocation}) \cup {RootStr(osname)}

NextWalk ==
    \/ call.op = "none" /\ \E path \in WalkLocations : Construct(path)
    \/ \E flavour \in Flavours, search \in SearchPatterns,
          option \in {TopDirectoryOnly, AllDirectories} :
            IterStart(flavour, search, option)
    \/ IterExpand

SpecWalk == Init /\ [][NextWalk]_vars

-----------------------------------------------------------------------------
(* SpecNames: the generators on a posix host, where ? and : are characters *)
(* of names like any other.                                                *)

\* names of entries that the filesystem of a host holds: any character but
\* the separator on posix
HostNames(os) ==
    IF os = "posix" THEN {<<"a">>, <<"?">>, <<":">>} ELSE Names

\* the filesystems with such names
HostFilesystems(os) ==
    {f \in UNION {[D -> Entries] :
                    D \in {D \in SUBSET UNION {[1..k -> HostNames(os)] : k \in 1..MaxDepth} :
                              Cardinality(D) <= MaxEntries}} :
        WellFormed(f)}

InitNames ==
    /\ osname = "posix"
    /\ fs \in HostFilesystems(osname)
    /\ fi = NoHandle
    /\ call = NoCall
    /\ walk = NoWalk
    /\ flags = NoFlags

SpecNames == InitNames /\ [][NextWalk]_vars

-----------------------------------------------------------------------------
(* SpecLinks: the generators on a filesystem in which one name may be a    *)
(* symbolic link to a directory above it.  os.path.isdir, os.path.isfile   *)
(* and os.listdir follow links, so the filesystem is given as the paths    *)
(* show it: the link is a directory with the entries of its target, and so *)
(* on inside it, until the host refuses to follow more links.              *)

\* what the paths show of f with a symbolic link at q to the directory t, which
\* is above q, when k more links are followed: the link is a directory (its
\* data is the target, as os.readlink gives it), and at k = 0 an entry that
\* os.stat fails on and that is neither a directory nor a file
RECURSIVE Through(_, _, _, _, _)
Through(os, f, q, t, k) ==
    IF k = 0 THEN WithEntry(f, q, [kind |-> "link", data |-> realpath(os, JoinAll(os, <<>>, t))])
    ELSE Graft(f, q,
               {x \in Subtree(Through(os, f, q, t, k - 1), t) : x[1] # <<>>}
                 \cup {<<<<>>, [kind |-> "dir", data |-> realpath(os, JoinAll(os, <<>>, t))]>>})

\* the filesystems of the model with one such link added
LinkedFilesystems(os) ==
    UNION {UNION {{Through(os, f, q, SubSeq(q, 1, j), MaxLinks) : j \in 0..(Len(q) - 1)} :
                    q \in {q \in NodePaths : q \notin DOMAIN f /\ node_isdir(f, Parent(q))}} :
             f \in Filesystems}

InitLinks ==
    /\ osname \in {"nt", "posix"}
    /\ fs \in Filesystems \cup LinkedFilesystems(osname)
    /\ fi = NoHandle
    /\ call = NoCall
    /\ walk = NoWalk
    /\ flags = NoFlags

SpecLinks == InitLinks /\ [][NextWalk]_vars

-----------------------------------------------------------------------------
(* SpecRace: create() and create_text() beside another process.  The test  *)
(* `os.path.exists` and the call of open are two steps, and the other      *)
(* process may create a file between them.                                 *)

\* `if not os.path.exists(self.original_path)` of create (op) or create_text:
\* the exception, or on to the open
CreateTest(op) ==
    /\ fi.made
    /\ call' = IF exists(osname, fs, fi.path)
               THEN Rec(op, <<>>, FALSE, "FileAlreadyExistsException", "none", FALSE)
               ELSE Rec(op, <<>>, FALSE, "none", "not exists", FALSE)
    /\ UNCHANGED <<osname, fs, fi, walk, flags>>

\* another process creates a file, once, after the test and before the open
OtherCreates ==
    /\ call.ret = "not exists"
    /\ fs = call.pre
    /\ \E p \in NodePaths, d \in Data :
          /\ ~ node_exists(fs, p)
          /\ node_isdir(fs, Parent(p))
          /\ fs' = WithEntry(fs, p, FileEntry(d))
    /\ UNCHANGED <<osname, fi, call, walk, flags>>

\* `return open(self.original_path, 'wb+')`, or 'w+' in create_text
CreateOpen ==
    /\ call.ret = "not exists"
    /\ LET out == Finish(os_open_create(fs, Resolve(osname, fi.path)), fi.path,
                         "file object")
       IN  /\ fs' = out.fs
           /\ call' = Rec(call.op, <<>>, FALSE, out.exc, out.ret, FALSE)
    /\ UNCHANGED <<osname, fi, walk, flags>>

NextRace ==
    \/ call.op = "none" /\ \E path \in Locations : Construct(path)
    \/ Fresh /\ \E op \in {"create", "create_text"} : CreateTest(op)
    \/ OtherCreates
    \/ CreateOpen

SpecRace == Init /\ [][NextRace]_vars

-----------------------------------------------------------------------------
(* SpecQuery: on any filesystem of the model a handle is built, from a     *)
(* relative or an absolute spelling, and is compared with another handle   *)
(* or asked for its length.                                                *)

\* the absolute spellings of the entries of the root directory
AbsoluteLocations == {realpath(osname, name) : name \in Names}

QueryLocations == WalkLocations \cup AbsoluteLocations

Eq ==
    \E other \in QueryLocations, isinstance \in BOOLEAN :
        Apply(IF isinstance THEN "__eq__" ELSE "__eq__ str", other, FALSE,
              eq(other, isinstance), FALSE)

CallLen == Apply("__len__", <<>>, FALSE, len, FALSE)

GetDirectoryLength ==
    \E option \in {TopDirectoryOnly, AllDirectories}, search \in {<<"*">>, <<"a">>} :
        LET out == get_directory_length(option, search)
        IN  /\ fi.made
            /\ fs' = out.fs
            /\ fi' = [fi EXCEPT !.path = out.path]
            /\ call' = [Rec("get_directory_length", search, FALSE, out.exc, out.ret, FALSE)
                           EXCEPT !.option = option]
            /\ UNCHANGED <<osname, walk, flags>>

NextQuery ==
    \/ call.op = "none" /\ \E path \in QueryLocations : Construct(path)
    \/ Fresh /\ Eq
    \/ Fresh /\ CallLen
    \/ Fresh /\ GetDirectoryLength

SpecQuery == Init /\ [][NextQuery]_vars

-----------------------------------------------------------------------------
(* SpecFlags: one operator is applied to flag sets of every value of the   *)
(* model; ~ may be applied to what ~ gave.                                 *)

FlagValues == (-(2 ^ FlagBits))..(2 ^ FlagBits - 1)

FlagSets == {Obj(class, value, FALSE) : class \in FlagClasses, value \in FlagValues}

\* the right operands: flag sets of both classes, ints, a str
Operands ==
    FlagSets \cup {Obj("int", value, FALSE) : value \in FlagValues}
             \cup {Obj("str", 0, FALSE)}

BinaryOperators == {"|", "&", "^", "+", "-"}

NextFlags ==
    \/ /\ flags.op = "none"
       /\ \E op \in BinaryOperators, a \in FlagSets, other \in Operands :
             FlagBinary(op, a, other)
    \/ /\ flags.op = "none"
       /\ \E op \in BinaryOperators, a \in FlagSets :
             FlagBinary(op, a, [a EXCEPT !.same = TRUE])
    \/ flags.op = "none" /\ \E a \in FlagSets : FlagInvert(a)
    \/ flags.op = "~" /\ flags.depth = 1 /\ FlagInvert(flags.out.obj)
    \/ flags.op = "none" /\ \E a \in FlagSets, other \in Operands : FlagEq(a, other)
    \/ flags.op = "none" /\ \E a \in FlagSets : FlagEq(a, [a EXCEPT !.same = TRUE])
    \/ flags.op = "none" /\ \E a \in FlagSets : FlagRepr(a)

SpecFlags == InitPath /\ [][NextFlags]_vars

-----------------------------------------------------------------------------
(* SpecMatch: fnmatch applied to every short name and pattern.             *)

PatternChars == {"a", "*", "?", "[", "]", "."}

NameChars == {"a", "[", "]", "."}

\* patterns and names beside the short ones: upper case, and a negated class
MorePatterns == {<<"A">>, <<"!">>, <<"[", "!", "a", "]">>}

MoreNames == {<<"A">>, <<"b">>, <<"!">>}

MatchPatterns == StringsUpTo(PatternChars, MaxLen) \cup MorePatterns

MatchNames == StringsUpTo(NameChars, MaxLen) \cup MoreNames

NextMatch ==
    call.op = "none" /\ \E name \in MatchNames, pat \in MatchPatterns : Fnmatch(name, pat)

SpecMatch == InitPath /\ [][NextMatch]_vars

-----------------------------------------------------------------------------
(* C1: constructing a FileInfo from a string that contains one of          *)
(* * ? " < > | or from the empty string raises InvalidPathException, and   *)
(* no handle is created.                                                   *)
C1_ReservedOrEmptyRejected ==
    (/\ call.op = "__init__"
     /\ \/ call.location = <<>>
        \/ \E c \in ReservedChars : Contains(call.location, c))
    => (call.exc = "InvalidPathException" /\ fi = NoHandle)

C1_Witness ==
    /\ call.op = "__init__"
    /\ Contains(call.location, "|")
    /\ Len(call.location) = 3
    /\ call.exc = "InvalidPathException"

(* C2: every string in which some colon is not the second character is     *)
(* rejected with InvalidPathException.                                     *)
C2_ColonNotSecondRejected ==
    (/\ call.op = "__init__"
     /\ \E i \in 1..Len(call.location) : call.location[i] = ":" /\ i # 2)
    => call.exc = "InvalidPathException"

-----------------------------------------------------------------------------
\* the directory the generator was made for
WalkBase == Resolve(osname, fi.path)

\* the entries the generator yielded, and the directories it listed
WalkOut == {Resolve(osname, walk.out[k]) : k \in 1..Len(walk.out)}
WalkListed == {Resolve(osname, walk.listed[k]) : k \in 1..Len(walk.listed)}

\* the entry q is of the kind the flavour asks for
KindMatches(flavour, q) ==
    CASE flavour = "files" -> fs[q].kind = "file"
      [] flavour = "directories" -> fs[q].kind = "dir"
      [] flavour = "items" -> TRUE

\* the entries among qs that a walk of this flavour and pattern is to give
Wanted(qs) ==
    {q \in qs : KindMatches(walk.flavour, q) /\ fnmatch(osname, q[Len(q)], walk.search)}

(* C3: with TopDirectoryOnly on an existing directory, get_files,          *)
(* get_directories and get_items give exactly one handle for each          *)
(* immediate child whose kind the flavour asks for and whose name matches  *)
(* the search pattern, and none for anything deeper.                       *)
C3_TopDirectoryOnlyExactChildren ==
    (walk.pc = "done" /\ walk.option = TopDirectoryOnly)
    => /\ WalkOut = Wanted(Children(fs, WalkBase))
       /\ Len(walk.out) = Cardinality(WalkOut)

C3_Witness ==
    /\ walk.pc = "done" /\ walk.option = TopDirectoryOnly
    /\ walk.flavour = "files" /\ walk.search = <<"a">>
    /\ Len(walk.out) = 1
    /\ Cardinality(Children(fs, WalkBase)) = 2
    /\ \E q \in Below(fs, WalkBase) : Len(q) = Len(WalkBase) + 2

(* C4: with AllDirectories each flavour yields exactly the entries below   *)
(* the directory, at any depth, whose kind the flavour asks for and whose  *)
(* name matches the pattern, each once; every directory below is listed,   *)
(* once, whether or not it matched.                                        *)
C4_AllDirectoriesExactDescendants ==
    (walk.pc = "done" /\ walk.option = AllDirectories)
    => /\ WalkOut = Wanted(Below(fs, WalkBase) \ {WalkBase})
       /\ Len(walk.out) = Cardinality(WalkOut)
       /\ WalkListed = {WalkBase} \cup
                          {q \in Below(fs, WalkBase) : fs[q].kind = "dir"}
       /\ Len(walk.listed) = Cardinality(WalkListed)

C4_Witness ==
    /\ walk.pc = "done" /\ walk.option = AllDirectories
    /\ walk.flavour = "files" /\ walk.search = <<"a">>
    /\ WalkBase = <<>>
    /\ <<<<"b">>, <<"a">>>> \in WalkOut
    /\ <<<<"b">>>> \in WalkListed

(* C5: a traversal of any flavour and option on a receiver that is not an  *)
(* existing directory raises NotSupportedException and yields nothing.     *)
C5_TraversalNeedsDirectory ==
    (walk.pc # "idle" /\ ~ isdir(osname, fs, fi.path))
    => /\ walk.pc = "raised"
       /\ walk.exc = "NotSupportedException"
       /\ walk.out = <<>>

C5_Witness ==
    /\ walk.pc = "raised"
    /\ walk.option = AllDirectories
    /\ isfile(osname, fs, fi.path)

\* the matching the claim describes: * is any run of characters, ? is one
\* character, every other character of the pattern is itself
RECURSIVE GlobLiteral(_, _, _, _)
GlobLiteral(name, i, pat, j) ==
    IF j > Len(pat) THEN i > Len(name)
    ELSE IF pat[j] = "*"
    THEN \E k \in i..(Len(name) + 1) : GlobLiteral(name, k, pat, j + 1)
    ELSE /\ i <= Len(name)
         /\ pat[j] = "?" \/ pat[j] = name[i]
         /\ GlobLiteral(name, i + 1, pat, j + 1)

\* the last call matched the name call.location against the pattern call.path0
Matched == call.ret = "True"

(* C6 as stated: a name matches a search pattern exactly when it matches   *)
(* it with * as any run of characters, ? as one character and every other  *)
(* character, [ ] ! . among them, as itself.                               *)
C6_EveryOtherCharacterLiteral ==
    call.op = "fnmatch" => (Matched <=> GlobLiteral(call.location, 1, call.path0, 1))

(* C6 amended: where os.name is "nt" a name matches a pattern exactly when *)
(* the name in lower case matches the pattern in lower case with * as any  *)
(* run, ? as one character and every other character as itself; elsewhere *)
(* the same holds, in the case given, of the patterns without "[".         *)
C6_LiteralOnNtAndWithoutBrackets ==
    call.op = "fnmatch" =>
        IF osname = "nt"
        THEN Matched <=> GlobLiteral(normcase("nt", call.location), 1,
                                     normcase("nt", call.path0), 1)
        ELSE ~ Contains(call.path0, "[")
                => (Matched <=> GlobLiteral(call.location, 1, call.path0, 1))

C6_Witness ==
    /\ call.op = "fnmatch"
    /\ osname = "nt"
    /\ call.path0 = <<"[", "*", ".">>
    /\ call.location = <<"[", "a", ".">>
    /\ Matched

-----------------------------------------------------------------------------
\* the nodes the last call's handle and its location argument name
SrcNode == Resolve(osname, call.path0)
DstNode == Resolve(osname, call.location)

(* C7: copy_to(dest, overwrite=False) of an existing file or directory     *)
(* onto a destination that exists raises FileAlreadyExistsException, for a *)
(* directory its subtype DirectoryAlreadyExistsException, and leaves the   *)
(* destination and the source as they were.                                *)
C7_CopyOntoExistingRefused ==
    (/\ call.op = "copy_to"
     /\ ~ call.overwrite
     /\ exists(osname, call.pre, call.path0)
     /\ exists(osname, call.pre, call.location))
    => /\ IsA(call.exc, "FileAlreadyExistsException")
       /\ isdir(osname, call.pre, call.path0)
            => call.exc = "DirectoryAlreadyExistsException"
       /\ Subtree(fs, DstNode) = Subtree(call.pre, DstNode)
       /\ Subtree(fs, SrcNode) = Subtree(call.pre, SrcNode)

C7_Witness ==
    /\ call.op = "copy_to"
    /\ ~ call.overwrite
    /\ isfile(osname, call.pre, call.path0)
    /\ isfile(osname, call.pre, call.location)
    /\ call.pre[SrcNode].data # call.pre[DstNode].data
    /\ call.exc = "FileAlreadyExistsException"
    /\ fs = call.pre

(* C8: for every existing file or directory and every valid absent         *)
(* destination, copy_to(dest) followed by compare_with(dest) returns True. *)
C8_CopyThenCompareIsTrue ==
    (call.op = "compare_with" /\ call.chained) => call.ret = "True"

(* C9: after a move_to(dest) that returned, the handle's original_path is  *)
(* dest, the old path does not exist and dest holds the entry, kind and    *)
(* content, that the source was.                                           *)
C9_MoveRelocates ==
    (call.op = "move_to" /\ call.exc = "none")
    => /\ fi.path = call.location
       /\ ~ exists(osname, fs, call.path0)
       /\ exists(osname, fs, call.location)
       /\ Subtree(fs, DstNode) = Subtree(call.pre, SrcNode)

C9_Witness ==
    /\ call.op = "move_to"
    /\ call.exc = "none"
    /\ isdir(osname, fs, call.location)
    /\ \E q \in Children(fs, DstNode) : fs[q] = FileEntry(<<"x">>)
    /\ fi.path = call.location

(* C10: delete() on a directory that holds an entry fails with             *)
(* NotSupportedException and the directory and its contents stay.          *)
C10_DeleteNonEmptyNotSupported ==
    (/\ call.op = "delete"
     /\ isdir(osname, call.pre, call.path0)
     /\ Children(call.pre, SrcNode) # {})
    => /\ call.exc = "NotSupportedException"
       /\ Subtree(fs, SrcNode) = Subtree(call.pre, SrcNode)

RenamedNode == Append(Parent(SrcNode), call.location)

(* C12: rename(newName) with a newName that holds a path separator raises  *)
(* NotSupportedException and changes nothing.  With a bare name other than *)
(* the entry's own it does what move_to(<parent>/newName) does: when the   *)
(* entry exists, the name is valid and nothing has that name in the parent *)
(* directory, the entry, with all below it, is afterwards under newName in *)
(* the same directory, the old name is gone, nothing else changed and the  *)
(* handle's path names the new location; otherwise it raises and changes   *)
(* nothing.                                                                *)
C12_RenameMovesWithinParent ==
    call.op = "rename" =>
        IF \E i \in 1..Len(call.location) : call.location[i] \in Seps(osname)
        THEN /\ call.exc = "NotSupportedException"
             /\ fs = call.pre
             /\ fi.path = call.path0
        ELSE call.location # SrcNode[Len(SrcNode)] =>
             IF /\ exists(osname, call.pre, call.path0)
                /\ \A c \in ReservedChars : ~ Contains(call.location, c)
                /\ ~ node_exists(call.pre, RenamedNode)
             THEN /\ call.exc = "none"
                  /\ fs = Graft(Without(call.pre, Below(call.pre, SrcNode)),
                                RenamedNode, Subtree(call.pre, SrcNode))
                  /\ ~ node_exists(fs, SrcNode)
                  /\ Resolve(osname, fi.path) = RenamedNode
             ELSE /\ IsA(call.exc, "FileInfoError")
                  /\ fs = call.pre
                  /\ fi.path = call.path0

C12_Witness ==
    /\ call.op = "rename"
    /\ call.exc = "none"
    /\ call.location = <<"b">>
    /\ SrcNode = <<<<"a">>>>
    /\ isdir(osname, call.pre, call.path0)
    /\ node_isfile(fs, <<<<"b">>, <<"a">>>>)

\* the methods that move the entry of the handle
Moves == {"move_to", "rename", "move_to_directory", "replace"}

(* C13: original_path is the string the handle was built from, and a step  *)
(* changes it only if it is a move (move_to, rename, move_to_directory,    *)
(* replace) that returned; every other method, and every move that raises, *)
(* leaves it as it was.                                                    *)
C13_PathChangedOnlyByMove ==
    [][/\ (~ fi.made /\ fi'.made) => fi'.path = call'.location
       /\ (fi.made /\ fi'.path # fi.path)
            => (call'.op \in Moves /\ call'.exc = "none")]_vars

C13_Witness ==
    /\ call.op = "move_to"
    /\ call.exc = "OSError"
    /\ isfile(osname, call.pre, call.path0)
    /\ fi.path = call.path0
    /\ fi.path # call.location

(* C14: two handles built from different spellings of one existing file    *)
(* compare equal with ==, and two handles of distinct existing files       *)
(* compare unequal.                                                        *)
C14_EqualIffSameFile ==
    (/\ call.op = "__eq__"
     /\ isfile(osname, call.pre, call.path0)
     /\ isfile(osname, call.pre, call.location))
    => /\ call.exc = "none"
       /\ call.ret = Bool(SrcNode = DstNode)

C14_Witness ==
    /\ call.op = "__eq__"
    /\ isfile(osname, call.pre, call.path0)
    /\ call.path0 = <<"a">>
    /\ call.location = realpath(osname, <<"a">>)
    /\ call.ret = "True"

(* C15: == between two handles of which one names a path that does not     *)
(* exist raises FileNotFoundException or its subtype                       *)
(* DirectoryNotFoundException.                                             *)
C15_EqOnMissingRaisesNotFound ==
    (/\ call.op = "__eq__"
     /\ \/ ~ exists(osname, call.pre, call.path0)
        \/ ~ exists(osname, call.pre, call.location))
    => IsA(call.exc, "FileNotFoundException")

\* the sizes of the regular files among the entries qs of f, added up
RECURSIVE SizeOfFiles(_, _)
SizeOfFiles(f, qs) ==
    IF qs = {} THEN 0
    ELSE LET q == CHOOSE x \in qs : TRUE
         IN  (IF f[q].kind = "file" THEN Len(f[q].data) ELSE 0)
                + SizeOfFiles(f, qs \ {q})

(* C16: len() of a directory handle, and get_directory_length() with its   *)
(* defaults, give the sum of the sizes of the regular files directly in    *)
(* the directory; files in subdirectories and the subdirectories           *)
(* themselves add nothing.                                                 *)
C16_DirectoryLengthIsTopLevelFiles ==
    (/\ \/ call.op = "__len__"
        \/ /\ call.op = "get_directory_length"
           /\ call.option = TopDirectoryOnly
           /\ call.location = <<"*">>
     /\ isdir(osname, call.pre, call.path0))
    => /\ call.exc = "none"
       /\ call.ret = SizeOfFiles(call.pre, Children(call.pre, SrcNode))

C16_Witness ==
    /\ call.op = "__len__"
    /\ SrcNode = <<>>
    /\ call.pre = (<<<<"a">>>> :> FileEntry(<<"x">>)) @@ (<<<<"b">>>> :> DirEntry)
                    @@ (<<<<"b">>, <<"a">>>> :> FileEntry(<<"x">>))
    /\ call.exc = "none"
    /\ call.ret = 1

(* C17: for flag sets a, b of one class, a | b and b | a have the same     *)
(* value, a & a has the value of a, and ~~a has the value of a.            *)
C17_OrCommutesAndIdempotentInvolution ==
    /\ (flags.op = "|" /\ flags.other.class = flags.a.class)
          => /\ flags.out.exc = "none" /\ flags.rev.exc = "none"
             /\ flags.out.obj.value = flags.rev.obj.value
    /\ (flags.op = "&" /\ flags.other.class = flags.a.class
                       /\ flags.other.value = flags.a.value)
          => /\ flags.out.exc = "none"
             /\ flags.out.obj.value = flags.a.value
    /\ (flags.op = "~" /\ flags.depth = 2)
          => /\ flags.out.exc = "none"
             /\ flags.out.obj.value = flags.origin.value

C17_Witness ==
    /\ flags.op = "|"
    /\ flags.a = Obj("FileAttributes", 1, FALSE)
    /\ flags.other = Obj("FileAttributes", 2, FALSE)
    /\ flags.out.obj.value = 3
    /\ flags.rev.obj.value = 3

\* the bitwise exclusive or of two ints
RECURSIVE IntXor(_, _)
IntXor(a, b) ==
    IF a = 0 THEN b
    ELSE IF b = 0 THEN a
    ELSE IF a = -1 THEN -b - 1
    ELSE IF b = -1 THEN -a - 1
    ELSE (((a % 2) + (b % 2)) % 2) + (2 * IntXor(a \div 2, b \div 2))

(* C18: a ^ b on two flag sets of one class has exactly the bits set in    *)
(* one of a, b and not in both, so a ^ b and b ^ a have the same value.    *)
C18_XorIsExclusiveOr ==
    (flags.op = "^" /\ flags.other.class = flags.a.class)
    => /\ flags.out.exc = "none"
       /\ flags.out.obj.value = IntXor(flags.a.value, flags.other.value)
       /\ flags.out.obj.value = flags.rev.obj.value

(* C19: each of | & ^ + - takes a flag set of the same class or an int as  *)
(* right operand and returns a flag set of that class; any other operand,  *)
(* a flag set of the other class among them, is refused with               *)
(* NotSupportedException and no other exception.                           *)
C19_OperandsAcceptedOrNotSupported ==
    flags.op \in BinaryOperators =>
        IF flags.other.class \in {flags.a.class, "int"}
        THEN flags.out.exc = "none" /\ flags.out.obj.class = flags.a.class
        ELSE flags.out.exc = "NotSupportedException"

(* C20: a == other is true exactly when other is a flag set of the same    *)
(* class with the same value or an int equal to the value, and false, with *)
(* no exception, for anything else.                                        *)
C20_EqualityIsValueEquality ==
    flags.op = "==" =>
        /\ flags.out.exc = "none"
        /\ flags.out.obj.value = 1
             <=> /\ flags.other.class \in {flags.a.class, "int"}
                 /\ flags.other.value = flags.a.value

\* the places in the registry of class whose bit is set in value
RegisteredIn(class, value) ==
    {i \in 1..Len(Registry(class)) :
        LET k == Registry(class)[i][1]
        IN  IF value >= 0
            THEN k <= 30 /\ (value \div (2 ^ k)) % 2 = 1
            ELSE k > 30 \/ ((-value - 1) \div (2 ^ k)) % 2 = 0}

\* the place in the registry of class of a name
PlaceOf(class, n) == CHOOSE i \in 1..Len(Registry(class)) : Registry(class)[i][2] = n

(* C21: repr of a flag set with at least one registered bit set is the     *)
(* names of exactly the registered bits that are set, in the order of      *)
(* declaration, with " | " between them; other bits add nothing.           *)
C21_ReprNamesRegisteredBitsInOrder ==
    (flags.op = "repr" /\ RegisteredIn(flags.a.class, flags.a.value) # {})
    => LET set == RegisteredIn(flags.a.class, flags.a.value)
           r == flags.out.obj.value
       IN  /\ flags.out.exc = "none"
           /\ Len(r) = 2 * Cardinality(set) - 1
           /\ \A j \in 1..Len(r) :
                 IF j % 2 = 0 THEN r[j] = " | "
                 ELSE /\ \E i \in set : r[j] = Registry(flags.a.class)[i][2]
                      /\ j > 2 => PlaceOf(flags.a.class, r[j - 2])
                                      < PlaceOf(flags.a.class, r[j])

C21_Witness ==
    /\ flags.op = "repr"
    /\ flags.a = Obj("FileAttributes", 11, FALSE)
    /\ flags.out.obj.value = <<"FileAttributes.ReadOnly", " | ", "FileAttributes.Hidden">>

(* C22: repr of a flag set with no registered bit set (value zero, or only *)
(* unregistered bits) raises NotSupportedException.                        *)
C22_ReprOfNoRegisteredBitRaises ==
    (flags.op = "repr" /\ RegisteredIn(flags.a.class, flags.a.value) = {})
    => flags.out.exc = "NotSupportedException"

\* the node an assignment of call.location to the property call.op is to
\* leave the entry at: under the new name in its directory, at the new path,
\* or under its own name in the new directory
AssignedNode ==
    CASE call.op \in {"name", "base_name"} -> Append(Parent(SrcNode), call.location)
      [] call.op = "extension" ->
            Append(Parent(SrcNode), SrcNode[Len(SrcNode)] \o call.location)
      [] call.op = "full_name" -> <<call.location>>
      [] call.op = "directory_name" -> <<call.location, SrcNode[Len(SrcNode)]>>

(* C23: assigning to name, base_name, extension, full_name or              *)
(* directory_name of a handle of an existing entry renames or moves the    *)
(* entry: when the place it is to go to is free and in a directory that    *)
(* exists, the assignment completes, the entry with all below it is there  *)
(* and its old path is gone.                                               *)
C23_AssignmentRelocates ==
    ( /\ call.op \in {"name", "base_name", "extension", "full_name", "directory_name"}
      /\ exists(osname, call.pre, call.path0)
      /\ ~ node_exists(call.pre, AssignedNode)
      /\ node_isdir(call.pre, Parent(AssignedNode))
      /\ ~ IsPrefix(SrcNode, AssignedNode) )
    => /\ call.exc = "none"
       /\ fs = Graft(Without(call.pre, Below(call.pre, SrcNode)),
                     AssignedNode, Subtree(call.pre, SrcNode))
       /\ Resolve(osname, fi.path) = AssignedNode

\* the place of the directory of the yielded path string s among the
\* directories listed so far
ListedAt(s) ==
    CHOOSE k \in 1..Len(walk.listed) :
        Resolve(osname, walk.listed[k]) = Parent(Resolve(osname, s))

\* the yielded path strings that name directories, in the order of the yield
YieldedDirs == SelectSeq(walk.out, LAMBDA s : isdir(osname, fs, s))

(* C24: the AllDirectories traversal is breadth-first.  Every entry is     *)
(* yielded while its directory is the one being listed, the directories    *)
(* are listed in the order in which they were found, so that what is       *)
(* yielded is in the order of the listed directories and an entry nearer   *)
(* to the receiver comes before every entry farther from it; when every    *)
(* directory is yielded, the directories are listed in the order in which  *)
(* they were yielded.                                                      *)
C24_BreadthFirst ==
    (walk.option = AllDirectories /\ walk.pc \in {"walking", "done"})
    => /\ \A i \in 1..Len(walk.out) :
             \E k \in 1..Len(walk.listed) :
                 Resolve(osname, walk.listed[k]) = Parent(Resolve(osname, walk.out[i]))
       /\ \A i, j \in 1..Len(walk.out) :
             i < j => /\ ListedAt(walk.out[i]) <= ListedAt(walk.out[j])
                      /\ Len(Resolve(osname, walk.out[i]))
                            <= Len(Resolve(osname, walk.out[j]))
       /\ (walk.flavour \in {"directories", "items"} /\ walk.search = <<"*">>)
             => /\ Len(walk.listed) - 1 <= Len(YieldedDirs)
                /\ \A k \in 2..Len(walk.listed) : walk.listed[k] = YieldedDirs[k - 1]
                /\ walk.pc = "done" => Len(walk.listed) - 1 = Len(YieldedDirs)

C24_Witness ==
    /\ walk.option = AllDirectories
    /\ walk.pc = "done"
    /\ walk.flavour = "items"
    /\ walk.search = <<"*">>
    /\ Resolve(osname, fi.path) = <<>>
    /\ Len(walk.out) = 3
    /\ Resolve(osname, walk.out[1]) = <<<<"b">>>>
    /\ Resolve(osname, walk.out[2]) = <<<<"a">>>>
    /\ Resolve(osname, walk.out[3]) = <<<<"b">>, <<"a">>>>
    /\ Len(walk.listed) = 3

(* C25: copy_to leaves its source as it was: for an existing source, any   *)
(* destination, the source itself among them, and either overwrite, the    *)
(* source and all below it are afterwards what they were, whether the call *)
(* returns or raises.                                                      *)
C25_CopyKeepsSource ==
    (call.op = "copy_to" /\ exists(osname, call.pre, call.path0))
    => /\ node_exists(fs, SrcNode)
       /\ Subtree(fs, SrcNode) = Subtree(call.pre, SrcNode)

(* C26: no generator raises InvalidPathException because of the name of a  *)
(* child: in a directory whose entries have names the host allows, a colon *)
(* or one of * ? " < > | in them or not, every flavour and option runs to  *)
(* its end.                                                                *)
C26_NoChildNameEndsTraversal ==
    (walk.pc \in {"raised", "done"} /\ isdir(osname, fs, fi.path))
    => /\ walk.pc = "done"
       /\ walk.exc # "InvalidPathException"

\* the directory that the node path p names, symbolic links resolved
RECURSIVE Canonical(_)
Canonical(p) ==
    LET links == {j \in 1..Len(p) :
                    /\ SubSeq(p, 1, j) \in DOMAIN fs
                    /\ fs[SubSeq(p, 1, j)].kind = "dir"
                    /\ fs[SubSeq(p, 1, j)].data # <<>>}
    IN  IF links = {} THEN p
        ELSE LET j == CHOOSE j \in links : \A m \in links : j <= m
             IN  Canonical(Resolve(osname, fs[SubSeq(p, 1, j)].data)
                             \o SubSeq(p, j + 1, Len(p)))

(* C27: the AllDirectories traversal of a directory structure that nothing *)
(* modifies ends with an empty pathlist after it has listed every          *)
(* directory it can reach, and each of them once, a symbolic link to a     *)
(* directory above it in the structure or not.                             *)
C27_EachDirectoryListedOnce ==
    (walk.option = AllDirectories /\ walk.pc = "done")
    => /\ walk.pathlist = <<>>
       /\ walk.lx = 0
       /\ \A p \in Below(fs, Resolve(osname, fi.path)) \cup {Resolve(osname, fi.path)} :
             node_isdir(fs, p)
               => \E i \in 1..Len(walk.listed) :
                     Canonical(Resolve(osname, walk.listed[i])) = Canonical(p)
       /\ \A i, j \in 1..Len(walk.listed) :
             i # j => Canonical(Resolve(osname, walk.listed[i]))
                        # Canonical(Resolve(osname, walk.listed[j]))

(* C28: replace(file, backup) does all or nothing.  When it returns,       *)
(* backup holds what file held, file holds what the receiver held, the     *)
(* receiver's old path is gone and the handle's path is file; when it      *)
(* raises, the filesystem and the handle's path are what they were.        *)
C28_ReplaceAllOrNothing ==
    call.op = "replace" =>
        IF call.exc = "none"
        THEN /\ Subtree(fs, Resolve(osname, call.backup))
                  = Subtree(call.pre, Resolve(osname, call.location))
             /\ Subtree(fs, Resolve(osname, call.location))
                  = Subtree(call.pre, SrcNode)
             /\ ~ node_exists(fs, SrcNode)
             /\ fi.path = call.location
        ELSE /\ fs = call.pre
             /\ fi.path = call.path0

(* C29: create() and create_text() never truncate a file that exists when  *)
(* the file is opened, whatever another process creates between the test   *)
(* and the open: a call that returns has made a file where nothing was at  *)
(* that moment, and a file that was there is afterwards what it was.       *)
C29_CreateNeverTruncates ==
    (call.op \in {"create", "create_text"} /\ call.ret # "not exists")
    => /\ call.exc = "none" => ~ exists(osname, call.pre, call.path0)
       /\ node_isfile(call.pre, SrcNode) => fs[SrcNode] = call.pre[SrcNode]

====
